---- MODULE Spec2Model ----
(***************************************************************************)
(* Model of the NEAR access key plugin (src/src/index.ts).                 *)
(*                                                                         *)
(* The plugin keeps one item of localStorage (STORAGE_KEY) and exposes     *)
(* four asynchronous operations.  JavaScript runs each of them to its next *)
(* await without interruption, so every action below is one such run: the  *)
(* call of an operation up to its first await, or the resumption of a      *)
(* suspended call when the awaited collaborator (the wallet, the RPC       *)
(* endpoint, the fallback next()) settles.                                 *)
(*                                                                         *)
(* An optional JavaScript value is a set of at most one element: None is   *)
(* undefined, Some(x) is the value x.                                      *)
(***************************************************************************)
EXTENDS Integers, Sequences, FiniteSets, TLC

None == {}
Some(x) == {x}
Get(o) == CHOOSE x \in o : TRUE

(***************************************************************************)
(* Bounds and input sets.                                                  *)
(***************************************************************************)
\* Longest batch handed to signAndSendTransactions.
MaxBatch == 2

\* The concurrent calls the host may have in progress (slots are reused).
Calls == {"a", "b"}

Contracts == {"app.near", "other.near"}
KeyIds == {"k1", "k2"}

FunctionCall(m) == [type |-> "FunctionCall", methodName |-> Some(m)]
Transfer == [type |-> "Transfer", methodName |-> None]

\* SignAndSendTransactionParams: receiverId, actions, network.
Tx(r, as, n) == [receiverId |-> r, actions |-> as, network |-> n]

Txs ==
  { Tx("app.near", <<FunctionCall("vote")>>, Some("mainnet")),
    Tx("app.near", <<FunctionCall("vote")>>, Some("testnet")),
    Tx("app.near", <<FunctionCall("comment")>>, None),
    Tx("other.near", <<FunctionCall("vote")>>, Some("testnet")),
    Tx("app.near", <<FunctionCall("vote"), Transfer>>, Some("mainnet")),
    Tx("app.near", <<>>, None) }

RECURSIVE SeqsUpTo(_, _)
SeqsUpTo(S, n) ==
  IF n = 0 THEN {<<>>}
  ELSE LET shorter == SeqsUpTo(S, n - 1)
       IN shorter \cup {Append(s, x) : s \in {t \in shorter : Len(t) = n - 1}, x \in S}

\* The transactions batches are made of: one the credential of "app.near" with
\* method "vote" authorizes, and one with another receiver.
BatchTxs == {tx \in Txs : Len(tx.actions) = 1 /\ tx.network = Some("testnet")}

Batches == SeqsUpTo(BatchTxs, MaxBatch)

\* CreateAccessKeyParams without the wallet: contractId, methodNames?, allowance?.
MethodNamesInputs == {None, Some(<<>>), Some(<<"vote">>)}
AllowanceInputs == {None}
CreateParams ==
  [contractId : Contracts, methodNames : MethodNamesInputs, allowance : AllowanceInputs]

\* What wallet.getAccounts() may resolve to.
AccountLists == {<<>>, <<[accountId |-> "alice.near"]>>}

\* Errors raised by the collaborators.
RpcErrors == {"RpcFailure"}
WalletErrors == {"WalletRejected"}

(***************************************************************************)
(* JSON text of the stored item.  A text is its top-level members (body)   *)
(* and whether it was cut short (truncated), in which case it does not     *)
(* parse.                                                                  *)
(***************************************************************************)
Fields == {"accountId", "privateKey", "contractId", "allowedMethods", "allowance"}

\* JSON.stringify(obj): members whose value is undefined are left out.
JSON_stringify(obj) ==
  [truncated |-> FALSE,
   body |-> [f \in {g \in DOMAIN obj : obj[g] # None} |-> Get(obj[f])]]

\* JSON.parse(text) of a well-formed text, read as AccessKeyData: a member the
\* text does not have reads as undefined.
JSON_parse(text) ==
  [f \in Fields |-> IF f \in DOMAIN text.body THEN Some(text.body[f]) ELSE None]

\* A text JSON.parse throws SyntaxError on.
TruncatedText == [truncated |-> TRUE, body |-> <<>>]

\* KeyPair.fromRandom: the two halves of key pair k.
PublicKeyOf(k) == <<"ed25519-public", k>>
PrivateKeyOf(k) == <<"ed25519-private", k>>

DEFAULT_ALLOWANCE == "250000000000000000000000"

\* allowance || "250000000000000000000000"
AllowanceOrDefault(allowance) ==
  IF allowance = None \/ allowance = Some("") THEN DEFAULT_ALLOWANCE ELSE Get(allowance)

\* methodNames || []
MethodNamesOrEmpty(methodNames) ==
  IF methodNames = None THEN <<>> ELSE Get(methodNames)

(***************************************************************************)
(* shouldUseAccessKey: "true", "false", or the error it throws.            *)
(***************************************************************************)
\* Array.prototype.includes
Includes(arr, x) == \E i \in 1..Len(arr) : Some(arr[i]) = x

RECURSIVE CheckActions(_, _, _)
CheckActions(key, actions, i) ==
  IF i > Len(actions) THEN "true"
  ELSE IF actions[i].type # "FunctionCall" THEN "false"
  ELSE IF key.allowedMethods = None THEN "TypeError"
  ELSE IF ~Includes(Get(key.allowedMethods), actions[i].methodName) THEN "false"
  ELSE CheckActions(key, actions, i + 1)

\* The check without its first test: JSON.parse(null) is null, and reading
\* contractId of null throws.
shouldUseAccessKey_noEmptyCheck(item, tx) ==
  IF item = None THEN "TypeError"
  ELSE IF Get(item).truncated THEN "SyntaxError"
  ELSE LET key == JSON_parse(Get(item))
       IN IF Some(tx.receiverId) # key.contractId THEN "false"
          ELSE CheckActions(key, tx.actions, 1)

\* The check without the comparison of the receiver.
shouldUseAccessKey_anyReceiver(item, tx) ==
  IF item = None THEN "false"
  ELSE IF Get(item).truncated THEN "SyntaxError"
  ELSE CheckActions(JSON_parse(Get(item)), tx.actions, 1)

shouldUseAccessKey(item, tx) ==
  IF item = None THEN "false"
  ELSE IF Get(item).truncated THEN "SyntaxError"
  ELSE LET key == JSON_parse(Get(item))
       IN IF Some(tx.receiverId) # key.contractId THEN "false"
          ELSE CheckActions(key, tx.actions, 1)

(***************************************************************************)
(* signTransactionLocally up to its await: the error it throws before      *)
(* submitting (threw), or the submission it hands to the RPC endpoint.     *)
(***************************************************************************)
MAINNET_RPC == "https://rpc.fastnear.com"
TESTNET_RPC == "https://test.rpc.fastnear.com"

\* The endpoint chosen by a test for "testnet" instead of "mainnet".
RpcUrl_testnetNamed(network) ==
  IF network = Some("testnet") THEN TESTNET_RPC ELSE MAINNET_RPC

RpcUrl(network) == IF network = Some("mainnet") THEN MAINNET_RPC ELSE TESTNET_RPC

Threw(e) == [threw |-> Some(e), sub |-> None]

\* A signer that falls back on a key it kept in memory when the item is gone.
signTransactionLocally_cachedKey(item, tx, n) ==
  IF item = None
    THEN [threw |-> None,
          sub |-> Some([index |-> n,
                        rpcUrl |-> RpcUrl(tx.network),
                        privateKey |-> PrivateKeyOf("k1"),
                        accountId |-> None,
                        receiverId |-> tx.receiverId,
                        actions |-> tx.actions])]
  ELSE IF Get(item).truncated THEN Threw("SyntaxError")
  ELSE LET keyData == JSON_parse(Get(item))
       IN IF keyData.privateKey = None THEN Threw("TypeError")
          ELSE IF \E i \in 1..Len(tx.actions) : tx.actions[i].type # "FunctionCall"
                 THEN Threw("Unsupported action type")
          ELSE [threw |-> None,
                sub |-> Some([index |-> n,
                              rpcUrl |-> RpcUrl(tx.network),
                              privateKey |-> Get(keyData.privateKey),
                              accountId |-> keyData.accountId,
                              receiverId |-> tx.receiverId,
                              actions |-> tx.actions])]

signTransactionLocally(item, tx, n) ==
  IF item = None THEN Threw("TypeError")
  ELSE IF Get(item).truncated THEN Threw("SyntaxError")
  ELSE LET keyData == JSON_parse(Get(item))
       IN IF keyData.privateKey = None THEN Threw("TypeError")
          ELSE IF \E i \in 1..Len(tx.actions) : tx.actions[i].type # "FunctionCall"
                 THEN Threw("Unsupported action type")
          ELSE [threw |-> None,
                sub |-> Some([index |-> n,
                              rpcUrl |-> RpcUrl(tx.network),
                              privateKey |-> Get(keyData.privateKey),
                              accountId |-> keyData.accountId,
                              receiverId |-> tx.receiverId,
                              actions |-> tx.actions])]

\* The FinalExecutionOutcome of the submission of item n, of the fallback
\* next(), and of the AddKey registration.
Outcome(n) == <<"outcome", n>>
NextOutcome == <<"next">>
RegistrationOutcome == <<"registration">>

(***************************************************************************)
(* State.                                                                  *)
(***************************************************************************)
VARIABLES
  localStorage,   \* the item stored under STORAGE_KEY: None, or Some(text)
  calls           \* per call slot, the call in progress

vars == <<localStorage, calls>>

\* A slot no call occupies.
Idle ==
  [kind |-> "idle", pc |-> "idle",
   txs |-> <<>>,        \* the request(s) of a signAndSendTransaction(s) call
   params |-> None,     \* the parameters of a createAccessKey call
   route |-> "none",    \* "local", "next" or "threw" once the call has decided
   subs |-> <<>>,       \* the local submissions started, in the order started,
                        \* each "pending", "ok" or "failed" at the RPC endpoint
   results |-> <<>>,    \* the results array of the batch loop
   nextCalls |-> 0,     \* how often the call invoked next()
   accountId |-> None,  \* createAccessKey: walletAccounts[0]?.accountId
   privateKey |-> None, \* createAccessKey: keyPair.toString()
   reg |-> None,        \* createAccessKey: the AddKey transaction sent to the wallet
   raised |-> None,     \* the error an awaited collaborator raised into the call
   signedOut |-> FALSE, \* createAccessKey: a signOut ran since the call began
   reissued |-> FALSE,  \* batch: a createAccessKey stored a credential since the check
   ret |-> None,        \* the value the call resolved with
   err |-> None]        \* the error the call rejected with

Resolved(c, v) == [c EXCEPT !.pc = "resolved", !.ret = Some(v)]
Rejected(c, e) == [c EXCEPT !.pc = "rejected", !.err = Some(e)]

\* What the model keeps of a submission: the item and where it was sent.
Sent(sub) ==
  [index |-> sub.index, rpcUrl |-> sub.rpcUrl, receiverId |-> sub.receiverId,
   status |-> "pending"]

\* One call of signTransactionLocally for item n of call c, up to its await.
StartLocal(c, item, n) ==
  LET r == signTransactionLocally(item, c.txs[n], n)
  IN IF r.threw # None
       THEN Rejected(c, Get(r.threw))
       ELSE [c EXCEPT !.pc = "awaitLocal", !.subs = Append(@, Sent(Get(r.sub)))]

\* The fallback: return next().
CallNext(c) == [c EXCEPT !.pc = "awaitNext", !.route = "next", !.nextCalls = @ + 1]

(***************************************************************************)
(* signOut                                                                 *)
(***************************************************************************)
\* What a signOut means to the other calls: a createAccessKey in progress has
\* been overtaken by it.
NoteSignOut(c) ==
  IF c.kind = "create" /\ c.pc \in {"awaitAccounts", "awaitReg"}
    THEN [c EXCEPT !.signedOut = TRUE] ELSE c

\* A signOut that leaves the item in place.
removeItem_keeps(item) == item

\* localStorage.removeItem(STORAGE_KEY)
removeItem(item) == None

\* A signOut that calls next() only when there was a credential to remove.
signOut_onlyIfStored(p) ==
  /\ calls[p].kind = "idle"
  /\ localStorage' = removeItem(localStorage)
  /\ calls' = [q \in Calls |->
                 IF q # p THEN NoteSignOut(calls[q])
                 ELSE IF localStorage = None
                   THEN Resolved([Idle EXCEPT !.kind = "signOut"], <<"undefined">>)
                   ELSE CallNext([Idle EXCEPT !.kind = "signOut"])]

signOut(p) ==
  /\ calls[p].kind = "idle"
  /\ localStorage' = removeItem(localStorage)
  /\ calls' = [q \in Calls |->
                 IF q = p THEN CallNext([Idle EXCEPT !.kind = "signOut"])
                 ELSE NoteSignOut(calls[q])]

(***************************************************************************)
(* signAndSendTransaction                                                  *)
(***************************************************************************)
\* The call up to its first await, for the item the storage holds.
SendTransaction(c, item) ==
  LET use == shouldUseAccessKey(item, c.txs[1])
  IN IF use = "true" THEN StartLocal([c EXCEPT !.route = "local"], item, 1)
     ELSE IF use = "false" THEN CallNext(c)
     ELSE Rejected([c EXCEPT !.route = "threw"], use)

signAndSendTransaction(p, tx) ==
  /\ calls[p].kind = "idle"
  /\ calls' = [calls EXCEPT ![p] =
                 SendTransaction([Idle EXCEPT !.kind = "tx", !.txs = <<tx>>], localStorage)]
  /\ UNCHANGED localStorage

(***************************************************************************)
(* signAndSendTransactions                                                 *)
(***************************************************************************)
\* params.transactions.every(shouldUseAccessKey): every() stops at the first
\* transaction that is refused, and an error thrown by a check ends it.
RECURSIVE Every(_, _, _)
Every(item, txs, i) ==
  IF i > Len(txs) THEN "true"
  ELSE LET use == shouldUseAccessKey(item, txs[i])
       IN IF use = "true" THEN Every(item, txs, i + 1) ELSE use

\* A loop that starts every remaining submission without awaiting any.
LoopItems_all(txs, n) == n..Len(txs)

\* The items whose submission the loop starts when it reaches item n: the loop
\* awaits each signTransactionLocally before it goes on.
LoopItems(txs, n) == IF n <= Len(txs) THEN {n} ELSE {}

RECURSIVE StartItems(_, _, _, _)
StartItems(c, item, n, items) ==
  IF n \notin items \/ c.pc = "rejected" THEN c
  ELSE StartItems(StartLocal(c, item, n), item, n + 1, items)

\* The loop from item n on, up to its next await or to the return.
Loop(c, item, n) ==
  IF n > Len(c.txs) THEN Resolved(c, c.results)
  ELSE StartItems(c, item, n, LoopItems(c.txs, n))

SendTransactions(c, item) ==
  LET all == Every(item, c.txs, 1)
  IN IF all = "true" THEN Loop([c EXCEPT !.route = "local"], item, 1)
     ELSE IF all = "false" THEN CallNext(c)
     ELSE Rejected([c EXCEPT !.route = "threw"], all)

signAndSendTransactions(p, txs) ==
  /\ calls[p].kind = "idle"
  /\ calls' = [calls EXCEPT ![p] =
                 SendTransactions([Idle EXCEPT !.kind = "batch", !.txs = txs], localStorage)]
  /\ UNCHANGED localStorage

(***************************************************************************)
(* The RPC endpoint settles a local submission.                            *)
(***************************************************************************)
\* The call resumes after "await signTransactionLocally" with the result.
AfterSubmission(c, item, j) ==
  IF c.kind = "tx" THEN Resolved(c, Outcome(c.subs[j].index))
  ELSE LET d == [c EXCEPT !.results = Append(@, Outcome(c.subs[j].index))]
       IN Loop(d, item, Len(d.results) + 1)

Pending(c) == {j \in 1..Len(c.subs) : c.subs[j].status = "pending"}

SubmissionResolves(p, j) ==
  /\ calls[p].pc = "awaitLocal"
  /\ j \in Pending(calls[p])
  /\ calls' = [calls EXCEPT ![p] =
                 AfterSubmission([calls[p] EXCEPT !.subs[j].status = "ok"], localStorage, j)]
  /\ UNCHANGED localStorage

\* A failed submission caught and handed to the fallback.
SubmissionFailed_fallback(c, j, e) == [c EXCEPT !.pc = "awaitNext", !.nextCalls = @ + 1]

\* A failed submission reported as a new error of the plugin.
SubmissionFailed_wrapped(c, j, e) == Rejected(c, "Local signing failed")

\* The awaited submission fails: the error leaves the call.
SubmissionFailed(c, j, e) == Rejected(c, e)

SubmissionRejects(p, j, e) ==
  /\ calls[p].pc = "awaitLocal"
  /\ j \in Pending(calls[p])
  /\ calls' = [calls EXCEPT ![p] =
                 SubmissionFailed([calls[p] EXCEPT !.subs[j].status = "failed",
                                                   !.raised = Some(e)], j, e)]
  /\ UNCHANGED localStorage

(***************************************************************************)
(* The fallback next() settles.                                            *)
(***************************************************************************)
NextResolves(p) ==
  /\ calls[p].pc = "awaitNext"
  /\ calls' = [calls EXCEPT ![p] = Resolved(calls[p], NextOutcome)]
  /\ UNCHANGED localStorage

NextRejects(p, e) ==
  /\ calls[p].pc = "awaitNext"
  /\ calls' = [calls EXCEPT ![p] = Rejected([calls[p] EXCEPT !.raised = Some(e)], e)]
  /\ UNCHANGED localStorage

(***************************************************************************)
(* createAccessKey                                                         *)
(***************************************************************************)
\* A createAccessKey that drops the stored credential before it asks for a new one.
createAccessKey_clearsFirst(p, params) ==
  /\ calls[p].kind = "idle"
  /\ calls' = [calls EXCEPT ![p] =
                 [Idle EXCEPT !.kind = "create", !.pc = "awaitAccounts",
                              !.params = Some(params)]]
  /\ localStorage' = None

\* Up to "await wallet.getAccounts()".
createAccessKey(p, params) ==
  /\ calls[p].kind = "idle"
  /\ calls' = [calls EXCEPT ![p] =
                 [Idle EXCEPT !.kind = "create", !.pc = "awaitAccounts",
                              !.params = Some(params)]]
  /\ UNCHANGED localStorage

\* walletAccounts[0]?.accountId
FirstAccountId(walletAccounts) ==
  IF Len(walletAccounts) = 0 THEN None ELSE Some(walletAccounts[1].accountId)

\* The AddKey transaction handed to wallet.signAndSendTransaction.
AddKeyTransaction(accountId, k, params) ==
  [receiverId |-> accountId,
   type |-> "AddKey",
   publicKey |-> PublicKeyOf(k),
   permission |-> [receiverId |-> params.contractId,
                   methodNames |-> MethodNamesOrEmpty(params.methodNames),
                   allowance |-> AllowanceOrDefault(params.allowance)]]

\* From the account list to "await wallet.signAndSendTransaction(...)", with
\* k the key pair KeyPair.fromRandom returns.
RequestRegistration(c, walletAccounts, k) ==
  LET accountId == FirstAccountId(walletAccounts)
  IN [c EXCEPT !.pc = "awaitReg",
               !.accountId = accountId,
               !.privateKey = Some(PrivateKeyOf(k)),
               !.reg = Some(AddKeyTransaction(accountId, k, Get(c.params)))]

GetAccountsResolves(p, walletAccounts, k) ==
  /\ calls[p].pc = "awaitAccounts"
  /\ calls' = [calls EXCEPT ![p] = RequestRegistration(calls[p], walletAccounts, k)]
  /\ UNCHANGED localStorage

GetAccountsRejects(p, e) ==
  /\ calls[p].pc = "awaitAccounts"
  /\ calls' = [calls EXCEPT ![p] = Rejected([calls[p] EXCEPT !.raised = Some(e)], e)]
  /\ UNCHANGED localStorage

\* The record with the public key string stored as privateKey.
AccessKeyData_publicKey(c) ==
  [accountId |-> c.accountId,
   privateKey |-> Some(Get(c.reg).publicKey),
   contractId |-> Some(Get(c.params).contractId),
   allowedMethods |-> Get(c.params).methodNames,
   allowance |-> Some(AllowanceOrDefault(Get(c.params).allowance))]

\* The object createAccessKey hands to JSON.stringify; allowance was already
\* replaced by its default at the top of the function.
AccessKeyData(c) ==
  [accountId |-> c.accountId,
   privateKey |-> c.privateKey,
   contractId |-> Some(Get(c.params).contractId),
   allowedMethods |-> Get(c.params).methodNames,
   allowance |-> Some(AllowanceOrDefault(Some(AllowanceOrDefault(Get(c.params).allowance))))]

\* localStorage.setItem(STORAGE_KEY, JSON.stringify({...}))
setItem(item, c) == Some(JSON_stringify(AccessKeyData(c)))

\* What a stored credential means to the other calls: a batch in its loop goes
\* on with a credential it did not check.
NoteIssued(c) ==
  IF c.kind = "batch" /\ c.pc = "awaitLocal" THEN [c EXCEPT !.reissued = TRUE] ELSE c

RegistrationResolves(p) ==
  /\ calls[p].pc = "awaitReg"
  /\ localStorage' = setItem(localStorage, calls[p])
  /\ calls' = [q \in Calls |->
                 IF q = p THEN Resolved(calls[p], RegistrationOutcome)
                 ELSE NoteIssued(calls[q])]

\* The write placed where it also runs when the registration threw.
RegistrationFailed_writes(item, c) == setItem(item, c)

\* The storage item after the awaited registration threw: setItem is not reached.
RegistrationFailed(item, c) == item

RegistrationRejects(p, e) ==
  /\ calls[p].pc = "awaitReg"
  /\ localStorage' = RegistrationFailed(localStorage, calls[p])
  /\ calls' = [calls EXCEPT ![p] = Rejected([calls[p] EXCEPT !.raised = Some(e)], e)]

(***************************************************************************)
(* The host takes the settled promise; the slot is free for the next call. *)
(***************************************************************************)
Return(p) ==
  /\ calls[p].pc \in {"resolved", "rejected"}
  /\ calls' = [calls EXCEPT ![p] = Idle]
  /\ UNCHANGED localStorage

(***************************************************************************)
(* Specifications.                                                         *)
(***************************************************************************)
Init ==
  /\ localStorage = None
  /\ calls = [p \in Calls |-> Idle]

\* The storage outlives the page: it may hold a text that was cut short.
InitStored ==
  /\ localStorage \in {None, Some(TruncatedText)}
  /\ calls = [p \in Calls |-> Idle]

Next ==
  \/ \E p \in Calls : signOut(p)
  \/ \E p \in Calls, tx \in Txs : signAndSendTransaction(p, tx)
  \/ \E p \in Calls, txs \in Batches : signAndSendTransactions(p, txs)
  \/ \E p \in Calls, params \in CreateParams : createAccessKey(p, params)
  \/ \E p \in Calls, w \in AccountLists, k \in KeyIds : GetAccountsResolves(p, w, k)
  \/ \E p \in Calls, e \in WalletErrors : GetAccountsRejects(p, e)
  \/ \E p \in Calls : RegistrationResolves(p)
  \/ \E p \in Calls, e \in WalletErrors : RegistrationRejects(p, e)
  \/ \E p \in Calls, j \in 1..MaxBatch : SubmissionResolves(p, j)
  \/ \E p \in Calls, j \in 1..MaxBatch, e \in RpcErrors : SubmissionRejects(p, j, e)
  \/ \E p \in Calls : NextResolves(p)
  \/ \E p \in Calls, e \in WalletErrors : NextRejects(p, e)
  \/ \E p \in Calls : Return(p)

Spec == Init /\ [][Next]_vars

SpecStored == InitStored /\ [][Next]_vars

(***************************************************************************)
(* Vocabulary of the properties.                                           *)
(***************************************************************************)
\* The storage holds a text that parses.
HoldsCredential(item) == item # None /\ ~Get(item).truncated

\* The request is in the scope of credential C: same contract, and every
\* action a FunctionCall of an allowed method.
InScope(C, tx) ==
  /\ Some(tx.receiverId) = C.contractId
  /\ \A i \in 1..Len(tx.actions) :
       /\ tx.actions[i].type = "FunctionCall"
       /\ C.allowedMethods # None
       /\ Includes(Get(C.allowedMethods), tx.actions[i].methodName)

\* The call in slot p took a step: its record changed in more than the notes
\* the steps of other calls leave in it.
Stepped(p) ==
  [calls'[p] EXCEPT !.signedOut = FALSE, !.reissued = FALSE]
    # [calls[p] EXCEPT !.signedOut = FALSE, !.reissued = FALSE]

\* The positions in subs of the submissions call p starts in this step.
Started(p) ==
  IF calls'[p].kind \in {"tx", "batch"}
    THEN (Len(calls[p].subs) + 1)..Len(calls'[p].subs) ELSE {}

\* The step in which operation kind is called in slot p.
Called(p, kind) == calls[p].kind = "idle" /\ calls'[p].kind = kind

\* The call was forwarded to next() and made no local submission.
Forwarded(c) ==
  c.route = "next" /\ c.pc = "awaitNext" /\ c.nextCalls = 1 /\ c.subs = <<>>

(***************************************************************************)
(* C1: for every stored credential C and request R, the authorization      *)
(* check of signAndSendTransaction is true iff R is in the scope of C, and *)
(* false in every other case: the call is signed locally iff in scope and  *)
(* forwarded to next() otherwise.                                          *)
(***************************************************************************)
C1_AuthorizedIffInScope ==
  [][\A p \in Calls :
       (Called(p, "tx") /\ HoldsCredential(localStorage)) =>
          LET C == JSON_parse(Get(localStorage))
              tx == calls'[p].txs[1]
          IN /\ shouldUseAccessKey(localStorage, tx) \in {"true", "false"}
             /\ shouldUseAccessKey(localStorage, tx) = "true" <=> InScope(C, tx)
             /\ calls'[p].route = IF InScope(C, tx) THEN "local" ELSE "next"]_vars

(***************************************************************************)
(* C2: a batch is signed locally only if every transaction of it is        *)
(* authorized by the per-request check; if one is not, the batch makes no  *)
(* local submission and is forwarded to next().                            *)
(***************************************************************************)
C2_BatchIsConjunction ==
  [][\A p \in Calls :
       Called(p, "batch") =>
          LET txs == calls'[p].txs
              all == \A i \in 1..Len(txs) : shouldUseAccessKey(localStorage, txs[i]) = "true"
          IN /\ calls'[p].route = "local" => all
             /\ ~all => Forwarded(calls'[p])]_vars

(***************************************************************************)
(* C3: while nothing is stored, signAndSendTransaction submits nothing     *)
(* locally and forwards the request to next().                             *)
(***************************************************************************)
C3_EmptyStoreForwards ==
  [][\A p \in Calls :
       (Called(p, "tx") /\ localStorage = None) => Forwarded(calls'[p])]_vars

\* A request forwarded on an empty store that an earlier signOut left empty.
C3_Witness ==
  /\ localStorage = None
  /\ \E p, q \in Calls :
       /\ calls[p].kind = "tx" /\ Forwarded(calls[p])
       /\ calls[q].kind = "signOut" /\ calls[q].pc = "resolved"

(***************************************************************************)
(* C4: signOut leaves the storage empty, and every request made next, also *)
(* one the credential authorized before, is forwarded to next().           *)
(***************************************************************************)
C4_SignOutRevokes ==
  [][\A p \in Calls :
       Called(p, "signOut") =>
         /\ localStorage' = None
         /\ \A tx \in Txs :
              Forwarded(SendTransaction([Idle EXCEPT !.kind = "tx", !.txs = <<tx>>],
                                        localStorage'))]_vars

\* The same request signed locally before the signOut and forwarded after it.
C4_Witness ==
  /\ localStorage = None
  /\ \E p, q \in Calls :
       /\ p # q
       /\ calls[p].kind = "tx" /\ calls[p].route = "local"
       /\ calls[q].kind = "tx" /\ Forwarded(calls[q])
       /\ calls[q].txs = calls[p].txs

C6_FailedRegistrationKeepsStore ==
  [][\A p \in Calls :
       /\ (calls'[p].kind = "create" /\ Stepped(p) /\ calls'[p].pc # "resolved")
            => localStorage' = localStorage
       /\ (calls[p].pc = "awaitReg" /\ calls'[p].pc = "rejected")
            => /\ calls'[p].raised # None
               /\ calls'[p].err = calls'[p].raised
               /\ calls'[p].ret = None]_vars

\* A registration failed while a credential of an earlier call is still stored.
C6_Witness ==
  \E p \in Calls :
    /\ calls[p].kind = "create" /\ calls[p].pc = "rejected" /\ calls[p].reg # None
    /\ HoldsCredential(localStorage)

(***************************************************************************)
(* C7: with a malformed text in the storage, signAndSendTransaction and    *)
(* signAndSendTransactions raise nothing and forward to next().            *)
(***************************************************************************)
C7_MalformedReadsAbsent ==
  [][\A p \in Calls :
       /\ (Called(p, "tx") \/ Called(p, "batch"))
       /\ localStorage # None
       /\ Get(localStorage).truncated
       => Forwarded(calls'[p])]_vars

(***************************************************************************)
(* C8: when getAccounts() returns no account, createAccessKey submits no   *)
(* AddKey registration and never stores a credential without an owner.     *)
(***************************************************************************)
C8_NoAccountNoCredential ==
  /\ \A p \in Calls :
       calls[p].reg # None => Get(calls[p].reg).receiverId # None
  /\ HoldsCredential(localStorage) => JSON_parse(Get(localStorage)).accountId # None

(***************************************************************************)
(* C9: a locally signed batch submits its transactions in input order, one *)
(* at a time (item i+1 only after the outcome of item i), and returns the  *)
(* results in input order.                                                 *)
(***************************************************************************)
C9_SequentialInOrder ==
  \A p \in Calls :
    LET c == calls[p]
    IN c.kind = "batch" =>
         /\ Cardinality(Pending(c)) <= 1
         /\ Len(c.subs) <= Len(c.results) + 1
         /\ \A j \in 1..Len(c.subs) :
              /\ c.subs[j].index = j
              /\ c.subs[j].receiverId = c.txs[j].receiverId
              /\ j < Len(c.subs) => c.subs[j].status = "ok"
         /\ \A j \in 1..Len(c.results) : c.results[j] = Outcome(j)
         /\ (c.pc = "resolved" /\ c.route = "local")
              => /\ Len(c.results) = Len(c.txs)
                 /\ Len(c.subs) = Len(c.txs)
                 /\ c.ret = Some(c.results)

\* The second item is in flight, submitted after the outcome of the first.
C9_Witness ==
  \E p \in Calls :
    /\ calls[p].kind = "batch" /\ calls[p].pc = "awaitLocal"
    /\ Len(calls[p].subs) = 2 /\ Len(calls[p].results) = 1
    /\ calls[p].subs[2].status = "pending"

(***************************************************************************)
(* C10: when the submission of item k of a locally signed batch fails, the *)
(* items before k were submitted, no item after k is, the call rejects     *)
(* with that error, returns no results and does not invoke next().         *)
(***************************************************************************)
C10_FailureAbortsBatch ==
  \A p \in Calls :
    LET c == calls[p]
    IN \A k \in 1..Len(c.subs) :
         (c.kind = "batch" /\ c.subs[k].status = "failed") =>
            /\ c.pc = "rejected"
            /\ c.raised # None /\ c.err = c.raised
            /\ c.ret = None
            /\ c.nextCalls = 0
            /\ Len(c.subs) = k
            /\ \A j \in 1..(k - 1) : c.subs[j].index = j /\ c.subs[j].status = "ok"

\* The second item of a batch failed after the first was submitted.
C10_Witness ==
  \E p \in Calls :
    /\ calls[p].kind = "batch" /\ calls[p].pc = "rejected"
    /\ Len(calls[p].subs) = 2 /\ Len(calls[p].txs) = 2
    /\ calls[p].subs[1].status = "ok" /\ calls[p].subs[2].status = "failed"

(***************************************************************************)
(* C11: every signAndSendTransaction takes one of two routes: a request    *)
(* that is not authorized goes to next() exactly once, with no local       *)
(* submission, and the call settles as next() does; an authorized request  *)
(* makes exactly one local submission and never invokes next().            *)
(***************************************************************************)
C11_ExactlyOneRoute ==
  [][\A p \in Calls :
       /\ Called(p, "tx") =>
            LET c == calls'[p]
                use == shouldUseAccessKey(localStorage, c.txs[1])
            IN IF use = "true"
                 THEN /\ c.route = "local" /\ c.pc = "awaitLocal"
                      /\ Len(c.subs) = 1 /\ c.nextCalls = 0
                 ELSE Forwarded(c)
       /\ (calls[p].kind = "tx" /\ calls[p].pc = "awaitNext" /\ Stepped(p)
             /\ calls'[p].kind = "tx")
            => /\ calls'[p].nextCalls = 1 /\ calls'[p].subs = <<>>
               /\ \/ calls'[p].pc = "resolved" /\ calls'[p].ret = Some(NextOutcome)
                  \/ /\ calls'[p].pc = "rejected" /\ calls'[p].raised # None
                     /\ calls'[p].err = calls'[p].raised]_vars

(***************************************************************************)
(* C12: signOut clears the storage and then invokes next() exactly once,   *)
(* whether or not a credential was stored; the storage is absent when      *)
(* next() runs, and the call does not touch it again when next() settles,  *)
(* also when next() fails.                                                 *)
(***************************************************************************)
C12_SignOutClearsThenNext ==
  [][\A p \in Calls :
       /\ Called(p, "signOut") =>
            /\ localStorage' = None
            /\ calls'[p].pc = "awaitNext" /\ calls'[p].nextCalls = 1
       /\ (calls[p].kind = "signOut" /\ calls'[p].kind = "signOut" /\ Stepped(p))
            => /\ localStorage' = localStorage
               /\ calls'[p].nextCalls = 1
               /\ calls'[p].pc \in {"resolved", "rejected"}
               /\ calls'[p].pc = "rejected" => calls'[p].err = calls'[p].raised]_vars

\* A signOut whose next() failed, with the storage absent.
C12_Witness ==
  \E p \in Calls :
    /\ calls[p].kind = "signOut" /\ calls[p].pc = "rejected" /\ calls[p].nextCalls = 1
    /\ localStorage = None

(***************************************************************************)
(* C13: when the local submission of an authorized single request fails,   *)
(* the call rejects with that error, does not invoke next(), and leaves    *)
(* the stored credential as it is.                                         *)
(***************************************************************************)
C13_LocalFailureIsTerminal ==
  [][\A p \in Calls :
       (/\ calls[p].kind = "tx" /\ calls[p].pc = "awaitLocal"
        /\ calls'[p].kind = "tx" /\ calls'[p].subs[1].status = "failed")
       => /\ calls'[p].pc = "rejected"
          /\ calls'[p].raised # None /\ calls'[p].err = calls'[p].raised
          /\ calls'[p].ret = None
          /\ calls'[p].nextCalls = 0
          /\ localStorage' = localStorage]_vars

\* A single request whose local submission failed; the credential is still stored.
C13_Witness ==
  \E p \in Calls :
    /\ calls[p].kind = "tx" /\ calls[p].pc = "rejected" /\ calls[p].route = "local"
    /\ calls[p].subs[1].status = "failed"
    /\ HoldsCredential(localStorage)

(***************************************************************************)
(* C14: the stored credential changes only by a successful createAccessKey *)
(* (absent or present to present, in one step) and by signOut (to absent). *)
(* signAndSendTransaction and signAndSendTransactions never change it, and *)
(* a createAccessKey that still awaits leaves the prior credential stored. *)
(***************************************************************************)
C14_StoreStateMachine ==
  [][/\ localStorage' # localStorage =>
          \/ \E p \in Calls : /\ calls[p].pc = "awaitReg" /\ calls'[p].pc = "resolved"
                              /\ HoldsCredential(localStorage')
          \/ \E p \in Calls : Called(p, "signOut") /\ localStorage' = None
     /\ \A p \in Calls :
          /\ (calls'[p].kind \in {"tx", "batch"} /\ Stepped(p))
               => localStorage' = localStorage
          /\ (calls'[p].kind = "create" /\ Stepped(p)
                /\ calls'[p].pc \in {"awaitAccounts", "awaitReg"})
               => localStorage' = localStorage]_vars

\* A re-issuance awaits its registration while a request is being signed with
\* the credential of the earlier issuance.
C14_Witness ==
  \E p, q \in Calls :
    /\ calls[p].kind = "create" /\ calls[p].pc = "awaitReg"
    /\ calls[q].kind = "tx" /\ calls[q].pc = "awaitLocal"
    /\ HoldsCredential(localStorage)

(***************************************************************************)
(* C15: in every reachable state the storage is empty or holds one         *)
(* complete credential record, with all five members of AccessKeyData.     *)
(***************************************************************************)
C15_CompleteRecordOrEmpty ==
  \/ localStorage = None
  \/ /\ HoldsCredential(localStorage)
     /\ DOMAIN Get(localStorage).body = Fields

(***************************************************************************)
(* C16: the network of a request does not enter the authorization          *)
(* decision: requests that differ only in network get the same decision on *)
(* the same storage.  A locally signed request goes to the production      *)
(* endpoint exactly when its network is "mainnet", and to the test         *)
(* endpoint for every other value, also an absent one.                     *)
(***************************************************************************)
Networks == {None, Some("mainnet"), Some("testnet")}

C16_NetworkOnlySelectsEndpoint ==
  [][\A p \in Calls :
       LET c == calls'[p]
       IN /\ (calls[p].kind = "idle" /\ c.kind \in {"tx", "batch"}) =>
               \A i \in 1..Len(c.txs) : \A n \in Networks :
                 shouldUseAccessKey(localStorage, [c.txs[i] EXCEPT !.network = n])
                   = shouldUseAccessKey(localStorage, c.txs[i])
          /\ \A j \in Started(p) :
               LET network == c.txs[c.subs[j].index].network
               IN /\ network = Some("mainnet") => c.subs[j].rpcUrl = MAINNET_RPC
                  /\ network # Some("mainnet") => c.subs[j].rpcUrl = TESTNET_RPC]_vars

\* A request without network signed locally and sent to the test endpoint,
\* while the same credential authorizes a request for "mainnet".
C16_Witness ==
  /\ \E p \in Calls :
       /\ calls[p].kind = "tx" /\ calls[p].txs[1].network = None
       /\ Len(calls[p].subs) = 1 /\ calls[p].subs[1].rpcUrl = TESTNET_RPC
  /\ \E tx \in Txs :
       tx.network = Some("mainnet") /\ shouldUseAccessKey(localStorage, tx) = "true"

(***************************************************************************)
(* C17: whenever a transaction is submitted through the local signing      *)
(* path, the credential read from the storage at that moment authorizes    *)
(* it, also for every item of a batch in progress when a createAccessKey   *)
(* or a signOut completes between two items.                               *)
(***************************************************************************)
\* The credential in the storage authorizes the transaction of submission j.
AuthorizesNow(p, j) ==
  /\ HoldsCredential(localStorage)
  /\ InScope(JSON_parse(Get(localStorage)), calls'[p].txs[calls'[p].subs[j].index])

C17_SubmittedIsAuthorized ==
  [][\A p \in Calls : \A j \in Started(p) : AuthorizesNow(p, j)]_vars

\* C17 as amended: the same, unless a createAccessKey stored a credential after
\* the authorization check of the batch.
C17_AuthorizedUnlessReissued ==
  [][\A p \in Calls : \A j \in Started(p) :
       ~calls[p].reissued => AuthorizesNow(p, j)]_vars

\* The second item of a batch submitted under the credential the batch was
\* checked with, while another call is in progress.
C17_Witness ==
  \E p, q \in Calls :
    /\ calls[p].kind = "batch" /\ calls[p].pc = "awaitLocal" /\ ~calls[p].reissued
    /\ Len(calls[p].subs) = 2 /\ calls[p].subs[2].status = "pending"
    /\ calls[q].kind = "create" /\ calls[q].pc = "awaitReg"

(***************************************************************************)
(* C18: once a signOut has cleared the storage, it stays absent and no     *)
(* transaction is signed locally until a createAccessKey that started      *)
(* after the signOut succeeds; a createAccessKey that was in progress when *)
(* signOut ran does not put a credential back.                             *)
(***************************************************************************)
\* The step in which the createAccessKey of slot p succeeds.
Issued(p) == calls[p].pc = "awaitReg" /\ calls'[p].pc = "resolved"

C18_KeysStayRemoved ==
  [][localStorage = None =>
       /\ \A p \in Calls : Started(p) = {}
       /\ localStorage' # None => \E p \in Calls : Issued(p) /\ ~calls[p].signedOut]_vars

\* C18 as amended: the storage stays absent, and nothing is signed locally,
\* until any createAccessKey succeeds, also one a signOut has overtaken.
C18_AbsentUntilIssued ==
  [][localStorage = None =>
       /\ \A p \in Calls : Started(p) = {}
       /\ localStorage' # None => \E p \in Calls : Issued(p)]_vars

\* A createAccessKey that a signOut overtook has stored its credential.
C18_Witness ==
  \E p \in Calls :
    /\ calls[p].kind = "create" /\ calls[p].pc = "resolved" /\ calls[p].signedOut
    /\ HoldsCredential(localStorage)
    /\ JSON_parse(Get(localStorage)).privateKey = calls[p].privateKey

(***************************************************************************)
(* C19: the authorization check is total over the credentials the plugin   *)
(* writes: with any credential a successful createAccessKey has stored,    *)
(* also one issued without methodNames, no signAndSendTransaction ends in  *)
(* an error raised by the check; it is routed to a local submission or to  *)
(* next().                                                                 *)
(***************************************************************************)
C19_CheckIsTotal ==
  \A p \in Calls : calls[p].kind = "tx" => calls[p].route # "threw"

====
